---- MODULE Spec2Model ----
(***************************************************************************)
(* Model of the AI news summarizer (src/main.py, src/config.py).           *)
(*                                                                         *)
(* One run of main(): load credentials, fetch the RSS feeds, save the raw  *)
(* articles, select the recent ones, summarize and deliver each selected   *)
(* article, save the processed articles, send the overview.                *)
(*                                                                         *)
(* Python dicts are mutable objects shared by every list that holds them,  *)
(* so the articles live in a heap (id -> record) and the lists hold ids.   *)
(* Time is counted in hours since an epoch; a feed's published_parsed is   *)
(* the pair <<day, hour>> (the part of time.struct_time the hour-level     *)
(* arithmetic of the selector can see).  The strings an article only      *)
(* carries from the feed to the requests and the files (feed_name, title,  *)
(* link, published, description) are not modelled.                         *)
(***************************************************************************)
EXTENDS Integers, Sequences, FiniteSets, TLC

VARIABLES
    pc,                    \* position of the run in main()
    exit,                  \* "running", "returned" or "escaped" (an exception left main)
    fatal,                 \* stage whose exception reached main's outer handler, or "none"
    now,                   \* datetime.now(timezone.utc), hours since the epoch
    heap,                  \* article id -> article dict
    all_articles,          \* main.all_articles (ids)
    articles_to_process,   \* main.articles_to_process (ids)
    i,                     \* enumerate index of the summarization loop (1-based)
    processed_articles,    \* main.processed_articles (ids)
    successful_summaries,  \* main.successful_summaries (summary strings)
    successful_count,      \* main.successful_count
    fetched_file,          \* storage/fetched_articles_*.json, or None
    summaries_file,        \* storage/summaries_*.json, or None
    io,                    \* history: requests made to the completion service and the chat sink
    feed                   \* index into config.RSS_FEEDS of fetch_rss_feeds' loop

vars == <<pc, exit, fatal, now, heap, all_articles, articles_to_process, i, feed,
          processed_articles, successful_summaries, successful_count,
          fetched_file, summaries_file, io>>

\* Python's None and an absent dict key: the empty tuple; a present value v is <<v>>.
None == <<>>

Some(v) == <<v>>

ValueOf(opt) == opt[1]

-----------------------------------------------------------------------------
(* Configuration (src/config.py) and bounds                                *)

MAX_ARTICLES == 5
HOURS_LOOKBACK == 48
NumFeeds == 5

MaxPool == 7        \* largest article pool handed to the selector on its own
MaxFetched == 3     \* largest article pool a modelled run of main ingests
MaxEntries == 1     \* most entries one feed returns in a modelled run

\* published_parsed values a feed entry can carry: absent, or <<day, hour>>.
\* <<1, 24>> is a struct_time the datetime constructor rejects (hour out of range).
Stamps == {None, <<0, 0>>, <<1, 12>>, <<2, 0>>, <<1, 24>>}

\* Clock readings of a run: the cutoff is 36 (so <<1,12>> is exactly on it) or 48.
Nows == {84, 96}

-----------------------------------------------------------------------------
(* Helpers                                                                 *)

Range(s) == {s[k] : k \in 1..Len(s)}

Take(s, n) == SubSeq(s, 1, IF n < Len(s) THEN n ELSE Len(s))

\* All sequences over S of length at most n.
SeqsUpTo(S, n) == UNION {[1..k -> S] : k \in 0..n}

\* datetime(*published_parsed[:6], tzinfo=utc): ValueError when a field is out of range.
ValidDate(pp) == pp[1] >= 0 /\ pp[2] \in 0..23

ToDatetime(pp) == pp[1] * 24 + pp[2]

\* article dict built by fetch_rss_feeds for one entry
NewArticle(pp) ==
    [published_parsed |-> pp, published_datetime |-> None,
     summary |-> None, error |-> None, processed_at |-> None]

-----------------------------------------------------------------------------
(* filter_recent_articles                                                  *)

AlwaysRecent(pub_time, cutoff_time) == TRUE

\* line 113: if pub_time >= cutoff_time
IsRecent(pub_time, cutoff_time) == pub_time >= cutoff_time

\* list.sort(key=published_datetime, reverse=True) is stable: x goes after every
\* element whose key is >= its own.
RECURSIVE InsertNewestFirst(_, _, _)
InsertNewestFirst(h, sorted, x) ==
    IF sorted = <<>> THEN <<x>>
    ELSE IF ValueOf(h[Head(sorted)].published_datetime) >= ValueOf(h[x].published_datetime)
         THEN <<Head(sorted)>> \o InsertNewestFirst(h, Tail(sorted), x)
         ELSE <<x>> \o sorted

RECURSIVE SortFrom(_, _, _)
SortFrom(h, sorted, rest) ==
    IF rest = <<>> THEN sorted
    ELSE SortFrom(h, InsertNewestFirst(h, sorted, Head(rest)), Tail(rest))

Unsorted(h, s) == s

\* line 127
SortNewestFirst(h, s) == SortFrom(h, <<>>, s)

NoLimit(s) == s

\* line 130: recent_articles[:config.MAX_ARTICLES]
Limit(s) == Take(s, MAX_ARTICLES)

\* lines 100-124: the scan; returns the heap (articles are annotated in place) and
\* recent_articles.
RECURSIVE ScanArticles(_, _, _, _)
ScanArticles(h, articles, cutoff_time, recent) ==
    IF articles = <<>> THEN [heap |-> h, recent |-> recent]
    ELSE LET a  == Head(articles)
             pp == h[a].published_parsed
         IN IF pp = None
            THEN ScanArticles(h, Tail(articles), cutoff_time, recent)
            ELSE IF ~ValidDate(pp)
            THEN ScanArticles(h, Tail(articles), cutoff_time, recent)
            ELSE LET pub_time == ToDatetime(pp)
                     h2 == [h EXCEPT ![a].published_datetime = Some(pub_time)]
                 IN ScanArticles(h2, Tail(articles), cutoff_time,
                        IF IsRecent(pub_time, cutoff_time)
                        THEN Append(recent, a) ELSE recent)

filter_recent_articles(h, articles, t) ==
    IF articles = <<>> THEN [heap |-> h, result |-> <<>>]
    ELSE LET cutoff_time == t - HOURS_LOOKBACK
             scanned == ScanArticles(h, articles, cutoff_time, <<>>)
         IN [heap |-> scanned.heap,
             result |-> Limit(SortNewestFirst(scanned.heap, scanned.recent))]

-----------------------------------------------------------------------------
(* The selector on its own: any pool, any clock                            *)

Pools == SeqsUpTo(Stamps, MaxPool)

InitSel ==
    /\ pc = "selector"
    /\ exit = "running"
    /\ fatal = "none"
    /\ now \in Nows
    /\ \E pool \in Pools :
          /\ heap = [k \in 1..Len(pool) |-> NewArticle(pool[k])]
          /\ all_articles = [k \in 1..Len(pool) |-> k]
    /\ articles_to_process = <<>>
    /\ i = 0
    /\ processed_articles = <<>>
    /\ successful_summaries = <<>>
    /\ successful_count = 0
    /\ fetched_file = None
    /\ summaries_file = None
    /\ io = <<>>
    /\ feed = 0

SelectorCall ==
    /\ pc = "selector"
    /\ LET r == filter_recent_articles(heap, all_articles, now)
       IN /\ heap' = r.heap
          /\ articles_to_process' = r.result
    /\ pc' = "selected"
    /\ UNCHANGED <<exit, fatal, now, all_articles, i, processed_articles,
                   successful_summaries, successful_count, fetched_file,
                   summaries_file, io, feed>>

NextSel == SelectorCall

SpecSel == InitSel /\ [][NextSel]_vars

-----------------------------------------------------------------------------
(* One run of main()                                                       *)

\* published_parsed values of the entries the feeds of a run return
FeedStamps == {None, <<1, 12>>, <<2, 0>>}

\* What feedparser.parse does for one feed: raises, reports a malformed feed
\* (bozo with a bozo_exception), or returns entries.
FeedOutcomes ==
    {[kind |-> "raise", entries |-> <<>>]}
    \cup {[kind |-> k, entries |-> e] :
            k \in {"bozo", "ok"}, e \in SeqsUpTo(FeedStamps, MaxEntries)}

\* requests.post + raise_for_status + response parsing of the completion service:
\* "RequestException" is an HTTP error status, a connection error or the 30 s
\* timeout (all requests.exceptions.RequestException, re-raised as Exception);
\* "malformed" is a 2xx response without choices[0].message.content (KeyError,
\* IndexError or a JSON decoding error, raised as they are).
CompletionOutcomes == {"ok", "RequestException", "malformed"}

\* requests.post + raise_for_status of the chat sink
DeliveryOutcomes == {"ok", "RequestException"}

\* str(e) of the exception summarize_with_perplexity raises
CompletionError(outcome) ==
    IF outcome = "RequestException" THEN "Perplexity API error" ELSE "KeyError"

\* str(e) of the exception send_to_telegram raises
DeliveryError == "Telegram API error"

\* the text the completion service returns for article a
SummaryText(a) == a

Init ==
    /\ pc = "load_env"
    /\ exit = "running"
    /\ fatal = "none"
    /\ now \in Nows
    /\ heap = <<>>
    /\ all_articles = <<>>
    /\ articles_to_process = <<>>
    /\ i = 0
    /\ feed = 0
    /\ processed_articles = <<>>
    /\ successful_summaries = <<>>
    /\ successful_count = 0
    /\ fetched_file = None
    /\ summaries_file = None
    /\ io = <<>>

Propagate(stage) == "escaped"

\* lines 429-431: except Exception: print the error and return
CatchFatal(stage) == "returned"

\* an exception raised at `stage` reaches the outer try of main
RaiseToMain(stage) ==
    /\ pc' = "END"
    /\ exit' = CatchFatal(stage)
    /\ fatal' = stage

\* main returns
Return ==
    /\ pc' = "END"
    /\ exit' = "returned"
    /\ fatal' = fatal

Goto(label) ==
    /\ pc' = label
    /\ UNCHANGED <<exit, fatal>>

\* line 346: load_env raises ValueError when a credential is missing
LoadEnv ==
    /\ pc = "load_env"
    /\ \E present \in BOOLEAN :
          IF present THEN Goto("fetch") /\ feed' = 1
          ELSE RaiseToMain("load_env") /\ feed' = feed
    /\ UNCHANGED <<now, heap, all_articles, articles_to_process, i,
                   processed_articles, successful_summaries, successful_count,
                   fetched_file, summaries_file, io>>

\* lines 59-71: the articles of one feed's entries; an entry without
\* published_parsed is not kept
RECURSIVE EntriesToArticles(_)
EntriesToArticles(entries) ==
    IF entries = <<>> THEN <<>>
    ELSE (IF Head(entries) # None THEN <<NewArticle(Head(entries))>> ELSE <<>>)
         \o EntriesToArticles(Tail(entries))

\* lines 46-77: one iteration of the loop over config.RSS_FEEDS
FeedArticles(outcome) ==
    IF outcome.kind = "ok" THEN EntriesToArticles(outcome.entries) ELSE <<>>

\* lines 349-353: one feed of fetch_rss_feeds; after the last feed main returns
\* when nothing was fetched
FetchFeed ==
    /\ pc = "fetch"
    /\ feed <= NumFeeds
    /\ \E outcome \in FeedOutcomes :
          LET new == FeedArticles(outcome)
              n   == Len(all_articles)
          IN /\ n + Len(new) <= MaxFetched
             /\ heap' = [k \in 1..(n + Len(new)) |->
                            IF k <= n THEN heap[k] ELSE new[k - n]]
             /\ all_articles' = [k \in 1..(n + Len(new)) |-> k]
             /\ feed' = feed + 1
             /\ IF feed < NumFeeds THEN Goto("fetch")
                ELSE IF n + Len(new) = 0 THEN Return
                ELSE Goto("save_fetched")
    /\ UNCHANGED <<now, articles_to_process, i, processed_articles,
                   successful_summaries, successful_count, fetched_file,
                   summaries_file, io>>

\* save_fetched_articles' copy of an article: published_parsed is replaced by the
\* ISO string of the date
SerializeFetched(art) ==
    [published_datetime |->
        IF art.published_parsed # None /\ ValidDate(art.published_parsed)
        THEN Some(ToDatetime(art.published_parsed)) ELSE art.published_datetime,
     summary |-> art.summary, error |-> art.error, processed_at |-> art.processed_at]

\* save_summaries' copy of an article
SerializeProcessed(art) ==
    [published_datetime |-> art.published_datetime,
     summary |-> art.summary, error |-> art.error, processed_at |-> art.processed_at]

\* line 356: save_fetched_articles; a failed write raises
SaveFetched ==
    /\ pc = "save_fetched"
    /\ \E written \in BOOLEAN :
          IF written
          THEN /\ fetched_file' =
                     Some([total_articles |-> Len(all_articles),
                           articles |-> [k \in 1..Len(all_articles) |->
                                            SerializeFetched(heap[all_articles[k]])]])
               /\ Goto("filter")
          ELSE /\ fetched_file' = fetched_file
               /\ RaiseToMain("save_fetched")
    /\ UNCHANGED <<now, heap, all_articles, articles_to_process, i, feed,
                   processed_articles, successful_summaries, successful_count,
                   summaries_file, io>>

\* lines 360-370: select; return when nothing is recent, else enter the loop
Filter ==
    /\ pc = "filter"
    /\ LET r == filter_recent_articles(heap, all_articles, now)
       IN /\ heap' = r.heap
          /\ articles_to_process' = r.result
          /\ IF r.result = <<>> THEN Return /\ i' = i
             ELSE Goto("summarize") /\ i' = 1
    /\ UNCHANGED <<now, all_articles, feed, processed_articles,
                   successful_summaries, successful_count, fetched_file,
                   summaries_file, io>>

LastFirst(articles, k) == articles[Len(articles) + 1 - k]

\* line 372: for i, article in enumerate(articles_to_process, 1)
ArticleAt(articles, k) == articles[k]

NotStamped(art, e, t) == [art EXCEPT !.error = Some(e)]

\* lines 406-407 of the loop's except clause
MarkError(art, e, t) == [art EXCEPT !.error = Some(e), !.processed_at = Some(t)]

NotMarked(art) == art

\* the article as the except clause leaves it after a failed delivery (lines 403-407)
DeliveryFailed(art) == MarkError(art, DeliveryError, now)

\* where the loop goes after the article at position i
AfterArticle ==
    /\ i' = i + 1
    /\ IF i < Len(articles_to_process) THEN Goto("summarize")
       ELSE Goto("save_summaries")

\* lines 376-387 and, when the completion request fails, 403-409
Summarize ==
    /\ pc = "summarize"
    /\ LET a == ArticleAt(articles_to_process, i)
       IN \E outcome \in CompletionOutcomes :
            /\ io' = Append(io, [op |-> "completion", article |-> a, outcome |-> outcome])
            /\ processed_articles' = Append(processed_articles, a)
            /\ IF outcome = "ok"
               THEN /\ heap' = [heap EXCEPT ![a].summary = Some(SummaryText(a)),
                                            ![a].processed_at = Some(now)]
                    /\ Goto("deliver")
                    /\ i' = i
               ELSE /\ heap' = [heap EXCEPT ![a] = MarkError(@, CompletionError(outcome), now)]
                    /\ AfterArticle
    /\ UNCHANGED <<now, all_articles, articles_to_process, feed,
                   successful_summaries, successful_count, fetched_file,
                   summaries_file>>

\* lines 389-401 and, when the delivery fails, 403-409
Deliver ==
    /\ pc = "deliver"
    /\ LET a == ArticleAt(articles_to_process, i)
       IN \E outcome \in DeliveryOutcomes :
            /\ io' = Append(io, [op |-> "delivery", article |-> a, outcome |-> outcome])
            /\ IF outcome = "ok"
               THEN /\ successful_count' = successful_count + 1
                    /\ successful_summaries' =
                           Append(successful_summaries, ValueOf(heap[a].summary))
                    /\ UNCHANGED <<heap, processed_articles>>
               ELSE /\ heap' = [heap EXCEPT ![a] = DeliveryFailed(@)]
                    /\ processed_articles' = Append(processed_articles, a)
                    /\ UNCHANGED <<successful_count, successful_summaries>>
            /\ AfterArticle
    /\ UNCHANGED <<now, all_articles, articles_to_process, feed, fetched_file,
                   summaries_file>>

\* lines 412-417: save_summaries (a failed write raises), then the decision to
\* send the overview
SaveSummaries ==
    /\ pc = "save_summaries"
    /\ \E written \in BOOLEAN :
          IF processed_articles # <<>> /\ ~written
          THEN /\ summaries_file' = summaries_file
               /\ RaiseToMain("save_summaries")
          ELSE /\ summaries_file' =
                     IF processed_articles # <<>>
                     THEN Some([total_summaries |-> Len(processed_articles),
                                articles |-> [k \in 1..Len(processed_articles) |->
                                    SerializeProcessed(heap[processed_articles[k]])]])
                     ELSE summaries_file
               /\ IF successful_summaries # <<>> /\ successful_count > 0
                  THEN Goto("overview")
                  ELSE Return
    /\ UNCHANGED <<now, heap, all_articles, articles_to_process, i, feed,
                   processed_articles, successful_summaries, successful_count,
                   fetched_file, io>>

\* lines 419-420 and 423-424: generate_final_summary
Overview ==
    /\ pc = "overview"
    /\ \E outcome \in CompletionOutcomes :
          /\ io' = Append(io, [op |-> "overview_completion",
                               article |-> 0, outcome |-> outcome])
          /\ IF outcome = "ok" THEN Goto("send_overview") ELSE Return
    /\ UNCHANGED <<now, heap, all_articles, articles_to_process, i, feed,
                   processed_articles, successful_summaries, successful_count,
                   fetched_file, summaries_file>>

\* lines 421-427: send_final_summary
SendOverview ==
    /\ pc = "send_overview"
    /\ \E outcome \in DeliveryOutcomes :
          io' = Append(io, [op |-> "overview_delivery",
                            article |-> 0, outcome |-> outcome])
    /\ Return
    /\ UNCHANGED <<now, heap, all_articles, articles_to_process, i, feed,
                   processed_articles, successful_summaries, successful_count,
                   fetched_file, summaries_file>>

Next ==
    \/ LoadEnv
    \/ FetchFeed
    \/ SaveFetched
    \/ Filter
    \/ Summarize
    \/ Deliver
    \/ SaveSummaries
    \/ Overview
    \/ SendOverview

Spec == Init /\ [][Next]_vars

\* main is one sequential thread, and every call it blocks on returns or raises
\* (each request has a 30 s timeout), so a step that can be taken is taken.
FairSpec == Spec /\ WF_vars(Next)

-----------------------------------------------------------------------------
(* Claims about the selector (checked under SpecSel)                       *)

Selected == pc = "selected"

\* publish time of article a as the feed gave it (None: absent or not a date)
PublishTime(a) ==
    LET pp == heap[a].published_parsed
    IN IF pp # None /\ ValidDate(pp) THEN Some(ToDatetime(pp)) ELSE None

\* C4: filter_recent_articles returns at most MAX_ARTICLES records, each with a
\* publish time that is not older than now - HOURS_LOOKBACK; a record without a
\* publish time is never returned.
C4_BudgetAndWindow ==
    Selected =>
        /\ Len(articles_to_process) <= MAX_ARTICLES
        /\ \A k \in 1..Len(articles_to_process) :
              LET a == articles_to_process[k]
              IN /\ a \in Range(all_articles)
                 /\ heap[a].published_parsed # None
                 /\ PublishTime(a) # None
                 /\ ValueOf(PublishTime(a)) >= now - HOURS_LOOKBACK

\* C4 witness: a pool with more recent records than the budget, and with an old
\* record and a record without a publish time, has been cut to MAX_ARTICLES.
C4_Witness ==
    /\ Selected
    /\ Len(articles_to_process) = MAX_ARTICLES
    /\ Len(all_articles) > MAX_ARTICLES
    /\ \E a \in Range(all_articles) : heap[a].published_parsed = None
    /\ \E a \in Range(all_articles) :
          PublishTime(a) # None /\ ValueOf(PublishTime(a)) < now - HOURS_LOOKBACK

\* C5 as stated: the returned sequence is strictly descending by publish time.
C5_StrictlyDescending ==
    Selected =>
        \A k, m \in 1..Len(articles_to_process) :
            k < m => ValueOf(PublishTime(articles_to_process[k]))
                        > ValueOf(PublishTime(articles_to_process[m]))

\* C5 amended: the returned sequence is descending by publish time, equal publish
\* times allowed: no record is older than a record that follows it.
C5_Descending ==
    Selected =>
        \A k, m \in 1..Len(articles_to_process) :
            k < m => ValueOf(PublishTime(articles_to_process[k]))
                        >= ValueOf(PublishTime(articles_to_process[m]))

\* C5 witness: the pool was not in descending order, and the result holds both a
\* tie and a strict step.
C5_Witness ==
    /\ Selected
    /\ \E k \in 1..(Len(all_articles) - 1) :
          /\ PublishTime(all_articles[k]) # None
          /\ PublishTime(all_articles[k + 1]) # None
          /\ ValueOf(PublishTime(all_articles[k])) < ValueOf(PublishTime(all_articles[k + 1]))
          /\ ValueOf(PublishTime(all_articles[k])) >= now - HOURS_LOOKBACK
    /\ \E k \in 1..(Len(articles_to_process) - 1) :
          PublishTime(articles_to_process[k]) = PublishTime(articles_to_process[k + 1])
    /\ \E k \in 1..(Len(articles_to_process) - 1) :
          ValueOf(PublishTime(articles_to_process[k]))
              > ValueOf(PublishTime(articles_to_process[k + 1]))

-----------------------------------------------------------------------------
(* Claims about a run of main (checked under Spec; C9 under FairSpec)      *)

HasSummary(a) == heap[a].summary # None

HasError(a) == heap[a].error # None

Ended == pc = "END"

\* the summarization loop has run over every selected article
LoopFinished == articles_to_process # <<>> /\ i > Len(articles_to_process)

PosOf(a) == CHOOSE k \in 1..Len(articles_to_process) : articles_to_process[k] = a

PerArticle(e) == e.op \in {"completion", "delivery"}

OverviewRan == \E n \in 1..Len(io) : io[n].op = "overview_completion"

\* no ingested article lies within the lookback window (the feeds have all been read)
NoRecentIngested ==
    /\ feed > NumFeeds
    /\ \A a \in Range(all_articles) :
          PublishTime(a) = None \/ ValueOf(PublishTime(a)) < now - HOURS_LOOKBACK

\* C1 as stated: every record of the processed list has exactly one of summary and
\* error set.
C1_ExactlyOneOfSummaryError ==
    \A k \in 1..Len(processed_articles) :
        LET a == processed_articles[k]
        IN (HasSummary(a) \/ HasError(a)) /\ ~(HasSummary(a) /\ HasError(a))

C3_OverviewIffSummary ==
    (Ended /\ LoopFinished /\ fatal = "none") =>
        (OverviewRan <=> \E a \in Range(processed_articles) : HasSummary(a))

\* C6: a record whose completion request failed has error set and processed_at
\* stamped and no summary, its summary is not in the overview's input, no delivery
\* was attempted for it, and the loop went on: to the next selected record, or past
\* the loop after the last one.
C6_CompletionFailure ==
    \A n \in 1..Len(io) :
        (io[n].op = "completion" /\ io[n].outcome # "ok") =>
            LET a == io[n].article
                p == PosOf(a)
            IN /\ heap[a].error = Some(CompletionError(io[n].outcome))
               /\ heap[a].processed_at # None
               /\ ~HasSummary(a)
               /\ SummaryText(a) \notin Range(successful_summaries)
               /\ \A m \in 1..Len(io) : ~(io[m].op = "delivery" /\ io[m].article = a)
               /\ a \in Range(processed_articles)
               /\ fatal # "summarize"
               /\ IF n < Len(io)
                  THEN IF p < Len(articles_to_process)
                       THEN /\ io[n + 1].op = "completion"
                            /\ io[n + 1].article = articles_to_process[p + 1]
                       ELSE io[n + 1].op = "overview_completion"
                  ELSE IF p < Len(articles_to_process)
                       THEN pc = "summarize" /\ i = p + 1
                       ELSE pc \in {"save_summaries", "overview", "END"} /\ LoopFinished

\* C6 witness: a completion request failed (by an error of the request, and by a
\* malformed response), and the record after it was summarized and delivered.
C6_Witness ==
    /\ Ended
    /\ \E n \in 1..Len(io) :
          /\ io[n].op = "completion" /\ io[n].outcome = "RequestException"
          /\ n + 2 <= Len(io)
          /\ io[n + 1].op = "completion" /\ io[n + 1].outcome = "ok"
          /\ io[n + 2].op = "delivery" /\ io[n + 2].outcome = "ok"
    /\ \E n \in 1..Len(io) : io[n].op = "completion" /\ io[n].outcome = "malformed"

\* C7 as stated: when no ingested article lies within the lookback window, no
\* summarization request is made, the overview stage does not run, and the
\* raw-articles file has been written when the run ends.
C7_NothingRecent ==
    (Ended /\ NoRecentIngested) =>
        /\ io = <<>>
        /\ fetched_file # None

\* C7 amended: when no ingested article lies within the lookback window, no
\* summarization request is made and the overview stage does not run; the
\* raw-articles file has been written when the run ends if and only if at least
\* one article was ingested and the write did not fail, and then it holds every
\* ingested article.
C7_NothingRecentAmended ==
    (Ended /\ NoRecentIngested) =>
        /\ io = <<>>
        /\ articles_to_process = <<>>
        /\ fetched_file # None <=> (all_articles # <<>> /\ fatal # "save_fetched")
        /\ fetched_file # None =>
              ValueOf(fetched_file).total_articles = Len(all_articles)

\* C7 witness: a run has ended that ingested articles, none of them recent, and
\* wrote the raw-articles file.
C7_Witness ==
    /\ Ended
    /\ NoRecentIngested
    /\ Len(all_articles) >= 2
    /\ fetched_file # None
    /\ exit = "returned"

\* C8: the requests are made one article at a time in selection order: a request
\* for an earlier position never follows one for a later position, the two
\* requests of one article are its completion and then at once its delivery, and
\* the overview's requests follow every per-article request.  So the messages the
\* chat sink gets are a subsequence of the selection, the overview last.
C8_OneAtATimeInOrder ==
    /\ \A n \in 1..Len(io) :
          PerArticle(io[n]) => io[n].article \in Range(articles_to_process)
    /\ \A m, n \in 1..Len(io) :
          (m < n /\ PerArticle(io[m]) /\ PerArticle(io[n])) =>
              \/ PosOf(io[m].article) < PosOf(io[n].article)
              \/ /\ io[m].article = io[n].article
                 /\ io[m].op = "completion" /\ io[m].outcome = "ok"
                 /\ io[n].op = "delivery"
                 /\ n = m + 1
    /\ \A m, n \in 1..Len(io) :
          (~PerArticle(io[m]) /\ PerArticle(io[n])) => n < m
    /\ \A n \in 1..Len(io) :
          io[n].op = "delivery" =>
              n > 1 /\ io[n - 1].op = "completion" /\ io[n - 1].article = io[n].article

\* C8 witness: three articles were delivered and then the overview was.
C8_Witness ==
    /\ Ended
    /\ Len(articles_to_process) >= 3
    /\ Len(successful_summaries) >= 3
    /\ \E n \in 1..Len(io) : io[n].op = "overview_delivery" /\ io[n].outcome = "ok"

\* C9: every run of main comes to its end and returns, whatever the outcomes of
\* the calls it makes; no exception leaves main.
C9_ReturnsNormally == <>(pc = "END" /\ exit = "returned")

\* C9 witness: a run returned after the overview's delivery failed.
C9_Witness ==
    /\ Ended
    /\ exit = "returned"
    /\ \E n \in 1..Len(io) : io[n].op = "overview_delivery" /\ io[n].outcome # "ok"

\* C10 as stated: when the loop has finished, the processed list is the selection
\* (each selected record once, in order) and the success counter is the length of
\* the list of successful summaries.
C10_ProcessedIsSelection ==
    LoopFinished =>
        /\ processed_articles = articles_to_process
        /\ successful_count = Len(successful_summaries)

====
